---- MODULE Spec2Model ----
(***************************************************************************)
(* The incremental-fetch timestamp cursor of clawstr-cli: the sqlite       *)
(* key/value store (lib/store), the cursor policy (lib/timestamp), the     *)
(* timestamp command and the polling commands as wired in the CLI.         *)
(*                                                                         *)
(* A JavaScript string is a sequence of one-character strings, so that     *)
(* String(n) and parseInt(s, 10) are computed digit by digit.              *)
(***************************************************************************)
EXTENDS Integers, Sequences, FiniteSets, TLC

\* kv:   the kv table of ~/.clawstr/store.db, key -> stored string or none
\* db:   the connection singleton of the process that calls the library
\* last: the latest library call or command invocation: what it was given, where
\*       it stands (awaiting the relay, or ended) and what it did
VARIABLES kv, db, last

vars == <<kv, db, last>>

(***************************************************************************)
(* Bounds of the model.                                                    *)
(***************************************************************************)
\* created_at of the events a relay returns ranges over 0..MaxCreatedAt
MaxCreatedAt == 2
\* delete is given at most MaxRefs event references
MaxRefs == 2
\* a relay answer holds at most MaxEvents events
MaxEvents == 2

(***************************************************************************)
(* JavaScript values.                                                      *)
(***************************************************************************)
\* number | undefined, NaN included
Num(n) == [t |-> "number", v |-> n]
NaN == [t |-> "NaN", v |-> 0]
undefined == [t |-> "undefined", v |-> 0]

\* the outcome of a call that may end the process: a returned value, or process.exit(code)
Return(x) == [t |-> "return", value |-> x, code |-> 0, msg |-> "none"]
Exit(c, m) == [t |-> "exit", value |-> undefined, code |-> c, msg |-> m]

\* string | undefined
Str(s) == <<s>>
NoStr == <<>>

DigitChars == <<"0", "1", "2", "3", "4", "5", "6", "7", "8", "9">>

IsDigit(c) == \E i \in 1..10 : DigitChars[i] = c

DigitVal(c) == (CHOOSE i \in 1..10 : DigitChars[i] = c) - 1

IsWhiteSpace(c) == c \in {" ", "\t", "\n"}

\* String.prototype.trimStart, the first step of parseInt
RECURSIVE TrimStart(_)
TrimStart(s) ==
  IF s # <<>> /\ IsWhiteSpace(Head(s)) THEN TrimStart(Tail(s)) ELSE s

\* the longest prefix of s made of decimal digits
RECURSIVE DigitPrefix(_)
DigitPrefix(s) ==
  IF s # <<>> /\ IsDigit(Head(s)) THEN <<Head(s)>> \o DigitPrefix(Tail(s)) ELSE <<>>

\* the mathematical value of a digit string, most significant digit first
RECURSIVE DigitsValue(_, _)
DigitsValue(z, acc) ==
  IF z = <<>> THEN acc ELSE DigitsValue(Tail(z), acc * 10 + DigitVal(Head(z)))

\* parseInt(s, 10): skip leading white space, take a sign, take the digits up to
\* the first character that is not one, NaN when there is none
parseInt(s) ==
  LET t == TrimStart(s)
      neg == t # <<>> /\ Head(t) = "-"
      u == IF t # <<>> /\ Head(t) \in {"-", "+"} THEN Tail(t) ELSE t
      z == DigitPrefix(u)
  IN IF z = <<>> THEN NaN
     ELSE Num(IF neg THEN 0 - DigitsValue(z, 0) ELSE DigitsValue(z, 0))

isNaN(x) == x.t = "NaN"

\* the decimal digits of a natural number
RECURSIVE NatDigits(_)
NatDigits(n) ==
  IF n < 10 THEN <<DigitChars[n + 1]>>
  ELSE NatDigits(n \div 10) \o <<DigitChars[(n % 10) + 1]>>

\* String(n) of an integer
String(n) == IF n < 0 THEN <<"-">> \o NatDigits(0 - n) ELSE NatDigits(n)

\* Math.max(...xs) of a non-empty list of integers
RECURSIVE MathMax(_)
MathMax(xs) ==
  IF Len(xs) = 1 THEN xs[1]
  ELSE LET m == MathMax(Tail(xs)) IN IF xs[1] > m THEN xs[1] ELSE m

\* JavaScript truthiness of a number: 0 and NaN are falsy
Truthy(n) == n # 0

(***************************************************************************)
(* lib/store: a world w is the table on disk (w.kv) and the process-wide   *)
(* connection (w.db).                                                      *)
(***************************************************************************)
LATEST_TIMESTAMP == "latest_timestamp"
LAST_SEEN_TIMESTAMP == "last_seen_timestamp"

KV_KEYS == {LATEST_TIMESTAMP, LAST_SEEN_TIMESTAMP}

\* the table is a general key/value table: a key that is not a cursor key
FOO == "foo"
TableKeys == KV_KEYS \cup {FOO}

World(table, conn) == [kv |-> table, db |-> conn]

\* getDb: open the connection (and create the table) on first use
getDb(w) == World(w.kv, "open")

kvGet(w, key) == w.kv[key]

\* variant: INSERT OR IGNORE, a key that has a value keeps it
kvSet_ignore(w, key, value) ==
  World([w.kv EXCEPT ![key] = IF @ = NoStr THEN Str(value) ELSE @], "open")

\* variant: a write replaces the whole table by the one entry
kvSet_replace(w, key, value) ==
  World([k \in DOMAIN w.kv |-> IF k = key THEN Str(value) ELSE NoStr], "open")

kvSet(w, key, value) == World([w.kv EXCEPT ![key] = Str(value)], "open")

kvDelete(w, key) == World([w.kv EXCEPT ![key] = NoStr], "open")

\* variant: the table lives in memory and goes with the connection
closeStore_wipe(w) == World([k \in DOMAIN w.kv |-> NoStr], "null")

closeStore(w) == World(w.kv, "null")

getLatestTimestamp(w) ==
  LET val == kvGet(w, LATEST_TIMESTAMP)
  IN IF val # NoStr THEN parseInt(val[1]) ELSE undefined

\* variant: latest only moves forward
setLatestTimestamp_monotone(w, ts) ==
  LET val == kvGet(w, LATEST_TIMESTAMP)
  IN IF val = NoStr \/ parseInt(val[1]).v < ts
       THEN kvSet(w, LATEST_TIMESTAMP, String(ts))
       ELSE getDb(w)

setLatestTimestamp(w, ts) == kvSet(w, LATEST_TIMESTAMP, String(ts))

\* variant: last seen is read from the latest entry
getLastSeenTimestamp_latest(w) ==
  LET val == kvGet(w, LATEST_TIMESTAMP)
  IN IF val # NoStr THEN parseInt(val[1]) ELSE undefined

getLastSeenTimestamp(w) ==
  LET val == kvGet(w, LAST_SEEN_TIMESTAMP)
  IN IF val # NoStr THEN parseInt(val[1]) ELSE undefined

\* variant: a cursor of 0 is stored as no cursor
setLastSeenTimestamp_clearOnZero(w, ts) ==
  IF ts = 0 THEN kvDelete(w, LAST_SEEN_TIMESTAMP)
  ELSE kvSet(w, LAST_SEEN_TIMESTAMP, String(ts))

setLastSeenTimestamp(w, ts) == kvSet(w, LAST_SEEN_TIMESTAMP, String(ts))

\* variant: the new value is written without a comparison
updateLastSeenTimestamp_always(w, createdAt) == setLastSeenTimestamp(w, createdAt + 1)

\* next > current is false when current is NaN
updateLastSeenTimestamp(w, createdAt) ==
  LET current == getLastSeenTimestamp(w)
      next == createdAt + 1
  IN IF current = undefined \/ (~isNaN(current) /\ next > current.v)
       THEN setLastSeenTimestamp(w, next)
       ELSE getDb(w)

(***************************************************************************)
(* lib/timestamp.  A function that reads or writes the store, or that may  *)
(* end the process, yields [res |-> its outcome, w |-> the world after].   *)
(***************************************************************************)
latestWord == <<"l", "a", "t", "e", "s", "t">>

NO_LATEST == "No \"latest\" timestamp stored"
INVALID_VALUE == "Invalid timestamp value"

\* variant: a stored 0 is taken for no stored value (if (!ts))
resolveTimestampParam_falsy(w, value) ==
  IF value = NoStr THEN [res |-> Return(undefined), w |-> w]
  ELSE IF value[1] = latestWord
    THEN LET ts == getLatestTimestamp(w)
         IN IF ts = undefined \/ ts = Num(0)
              THEN [res |-> Exit(1, NO_LATEST), w |-> getDb(w)]
              ELSE [res |-> Return(ts), w |-> getDb(w)]
    ELSE LET num == parseInt(value[1])
         IN IF isNaN(num)
              THEN [res |-> Exit(1, INVALID_VALUE), w |-> w]
              ELSE [res |-> Return(num), w |-> w]

\* variant: "latest" with nothing stored starts the cursor at 0 instead of failing
resolveTimestampParam_init(w, value) ==
  IF value = NoStr THEN [res |-> Return(undefined), w |-> w]
  ELSE IF value[1] = latestWord
    THEN LET ts == getLatestTimestamp(w)
         IN IF ts = undefined
              THEN [res |-> Return(Num(0)), w |-> setLatestTimestamp(w, 0)]
              ELSE [res |-> Return(ts), w |-> getDb(w)]
    ELSE LET num == parseInt(value[1])
         IN IF isNaN(num)
              THEN [res |-> Exit(1, INVALID_VALUE), w |-> w]
              ELSE [res |-> Return(num), w |-> w]

resolveTimestampParam(w, value) ==
  IF value = NoStr THEN [res |-> Return(undefined), w |-> w]
  ELSE IF value[1] = latestWord
    THEN LET ts == getLatestTimestamp(w)
         IN IF ts = undefined
              THEN [res |-> Exit(1, NO_LATEST), w |-> getDb(w)]
              ELSE [res |-> Return(ts), w |-> getDb(w)]
    ELSE LET num == parseInt(value[1])
         IN IF isNaN(num)
              THEN [res |-> Exit(1, INVALID_VALUE), w |-> w]
              ELSE [res |-> Return(num), w |-> w]

created_at(events) == [i \in 1..Len(events) |-> events[i].created_at]

\* variant: an empty batch counts as newest timestamp 0
trackLatestTimestamp_empty(w, events) ==
  LET maxCreatedAt == IF Len(events) = 0 THEN 0 ELSE MathMax(created_at(events))
  IN IF Len(events) = 0 \/ Truthy(maxCreatedAt)
       THEN setLastSeenTimestamp(w, maxCreatedAt + 1)
       ELSE w

\* variant: the batch advances latest instead of last_seen
trackLatestTimestamp_latest(w, events) ==
  IF Len(events) = 0 THEN w
  ELSE LET maxCreatedAt == MathMax(created_at(events))
       IN IF Truthy(maxCreatedAt)
            THEN setLatestTimestamp(w, maxCreatedAt + 1)
            ELSE w

trackLatestTimestamp(w, events) ==
  IF Len(events) = 0 THEN w
  ELSE LET maxCreatedAt == MathMax(created_at(events))
       IN IF Truthy(maxCreatedAt)
            THEN setLastSeenTimestamp(w, maxCreatedAt + 1)
            ELSE w

(***************************************************************************)
(* The polling commands.  A command yields                                 *)
(*   w        the world after it                                           *)
(*   phase    "awaiting" (suspended in await queryEvents), "returned", or  *)
(*            "exited" (it called process.exit)                            *)
(*   code     the exit code                                                *)
(*   msg      the error it printed                                         *)
(*   queries  the number of relay queries it issued                        *)
(*   filter   the time bounds of the filter of its last query              *)
(*   events   the events its last query returned                           *)
(*   failed   whether a relay query raised an error                        *)
(* await queryEvents(...) has three outcomes: Pending (the relay has not   *)
(* answered yet), Raised (an error), Returned(events).                     *)
(***************************************************************************)
Pending == [t |-> "pending", events |-> <<>>]
Raised == [t |-> "raised", events |-> <<>>]
Returned(events) == [t |-> "returned", events |-> events]

NoFilter == [since |-> undefined, until |-> undefined]

\* variant: if (options.since) filter.since = options.since; same for until
Filter_truthy(options) ==
  [since |-> IF options.since = Num(0) THEN undefined ELSE options.since,
   until |-> IF options.until = Num(0) THEN undefined ELSE options.until]

\* if (options.since !== undefined) filter.since = options.since; same for until
Filter(options) == [since |-> options.since, until |-> options.until]

Ran(w, phase, code, msg, queries, filter, events, failed) ==
  [w |-> w, phase |-> phase, code |-> code, msg |-> msg, queries |-> queries,
   filter |-> filter, events |-> events, failed |-> failed]

\* process.exit(1) before any query
Refused(w, msg) == Ran(w, "exited", 1, msg, 0, NoFilter, <<>>, FALSE)

\* variant: the cursor is written before the query is sent
Awaiting_marks(w, queries, filter) ==
  Ran(setLastSeenTimestamp(w, 0), "awaiting", 0, "none", queries, filter, <<>>, FALSE)

\* suspended in the await of query number `queries`
Awaiting(w, queries, filter) == Ran(w, "awaiting", 0, "none", queries, filter, <<>>, FALSE)

\* variant: the catch block prints the error and lets the command return
Caught_swallow(w, queries, filter) ==
  Ran(w, "returned", 0, "Error", queries, filter, <<>>, TRUE)

\* the catch block of every command: print the error, process.exit(1)
Caught(w, queries, filter) == Ran(w, "exited", 1, "Error", queries, filter, <<>>, TRUE)

\* the command ran to its end; what it prints is left out
Shown(w, queries, filter, events) ==
  Ran(w, "returned", 0, "none", queries, filter, events, FALSE)

notificationsCommand(w, options, keyPair, answer) ==
  IF ~keyPair THEN Refused(w, "No identity found")
  ELSE IF answer = Pending THEN Awaiting(w, 1, Filter(options))
  ELSE IF answer = Raised THEN Caught(w, 1, Filter(options))
  ELSE Shown(trackLatestTimestamp(w, answer.events), 1, Filter(options), answer.events)

showSubclawFeed(w, options, answer) ==
  IF answer = Pending THEN Awaiting(w, 1, Filter(options))
  ELSE IF answer = Raised THEN Caught(w, 1, Filter(options))
  ELSE Shown(trackLatestTimestamp(w, answer.events), 1, Filter(options), answer.events)

\* the first query fetches the post itself (no time bounds), the second its comments
showEventWithComments(w, input, options, originalPost, answer) ==
  IF input = "invalid" THEN Refused(w, "Invalid event reference")
  ELSE IF originalPost = Pending THEN Awaiting(w, 1, NoFilter)
  ELSE IF originalPost = Raised THEN Caught(w, 1, NoFilter)
  ELSE IF answer = Pending THEN Awaiting(w, 2, Filter(options))
  ELSE IF answer = Raised THEN Caught(w, 2, Filter(options))
  ELSE Shown(trackLatestTimestamp(w, answer.events), 2, Filter(options), answer.events)

\* input is the kind of the <input> argument: "empty", "subclaw" (/c/name or a
\* clawstr.com/c/ URL), "event" (note1, nevent1 or 64 hex digits) or "invalid"
showCommand(w, input, options, originalPost, answer) ==
  IF input = "empty" THEN Refused(w, "Input is required")
  ELSE IF input = "subclaw" THEN showSubclawFeed(w, options, answer)
  ELSE showEventWithComments(w, input, options, originalPost, answer)

recentCommand(w, options, answer) ==
  IF answer = Pending THEN Awaiting(w, 1, Filter(options))
  ELSE IF answer = Raised THEN Caught(w, 1, Filter(options))
  ELSE Shown(IF options.sinceLatest THEN trackLatestTimestamp(w, answer.events) ELSE w,
             1, Filter(options), answer.events)

\* query is "blank" (empty or white space only) or "text"
searchCommand(w, query, options, answer) ==
  IF query = "blank" THEN Refused(w, "Search query is required")
  ELSE IF answer = Pending THEN Awaiting(w, 1, Filter(options))
  ELSE IF answer = Raised THEN Caught(w, 1, Filter(options))
  ELSE Shown(trackLatestTimestamp(w, answer.events), 1, Filter(options), answer.events)

(***************************************************************************)
(* The timestamp command (option-based).  Of what it prints, the values    *)
(* of the read modes are kept (out); the messages of the write modes are   *)
(* left out.                                                               *)
(***************************************************************************)
null == [t |-> "null", v |-> 0]
Text(s) == [t |-> "text", v |-> 0, s |-> s]
NotSet == Text(<<"n", "o", "t", " ", "s", "e", "t">>)

\* variant: latest || null
Coalesce_or(x, y) == IF x = undefined \/ x = null \/ x = Num(0) THEN y ELSE x

\* latest ?? null
Coalesce(x, y) == IF x = undefined \/ x = null THEN y ELSE x

\* x !== undefined ? `${x}` : 'not set'
OrNotSet(x) == IF x # undefined THEN Text(String(x.v)) ELSE NotSet

Console(mode, latest, lastSeen) ==
  [t |-> "printed", v |-> 0, mode |-> mode, latest |-> latest, lastSeen |-> lastSeen]

Printed(r, out) == r @@ [out |-> out]

\* variant: --rollforward computes (last seen, or 0 when none) + 1
timestampCommand_plusOne(w, options) ==
  IF options.set # NoStr
    THEN LET num == parseInt(options.set[1])
         IN IF isNaN(num) THEN Printed(Refused(w, INVALID_VALUE), undefined)
            ELSE Printed(Shown(setLatestTimestamp(w, num.v), 0, NoFilter, <<>>), undefined)
  ELSE IF options.setLastSeen # NoStr
    THEN LET num == parseInt(options.setLastSeen[1])
         IN IF isNaN(num) THEN Printed(Refused(w, INVALID_VALUE), undefined)
            ELSE Printed(Shown(setLastSeenTimestamp(w, num.v), 0, NoFilter, <<>>), undefined)
  ELSE IF options.rollforward
    THEN LET lastSeen == getLastSeenTimestamp(w)
             next == (IF lastSeen # undefined THEN lastSeen.v ELSE 0) + 1
         IN Printed(Shown(setLatestTimestamp(w, next), 0, NoFilter, <<>>), undefined)
  ELSE IF options.get
    THEN Printed(Shown(getDb(w), 0, NoFilter, <<>>),
                 Console("get", OrNotSet(getLatestTimestamp(w)), undefined))
  ELSE IF options.json
    THEN Printed(Shown(getDb(w), 0, NoFilter, <<>>),
                 Console("json", Coalesce(getLatestTimestamp(w), null),
                         Coalesce(getLastSeenTimestamp(w), null)))
  ELSE Printed(Shown(getDb(w), 0, NoFilter, <<>>),
               Console("status", OrNotSet(getLatestTimestamp(w)),
                       OrNotSet(getLastSeenTimestamp(w))))

\* variant: --set-last-seen is looked at before --set
timestampCommand_lastSeenFirst(w, options) ==
  IF options.setLastSeen # NoStr
    THEN LET num == parseInt(options.setLastSeen[1])
         IN IF isNaN(num) THEN Printed(Refused(w, INVALID_VALUE), undefined)
            ELSE Printed(Shown(setLastSeenTimestamp(w, num.v), 0, NoFilter, <<>>), undefined)
  ELSE IF options.set # NoStr
    THEN LET num == parseInt(options.set[1])
         IN IF isNaN(num) THEN Printed(Refused(w, INVALID_VALUE), undefined)
            ELSE Printed(Shown(setLatestTimestamp(w, num.v), 0, NoFilter, <<>>), undefined)
  ELSE IF options.rollforward
    THEN LET lastSeen == getLastSeenTimestamp(w)
             next == IF lastSeen # undefined THEN lastSeen.v + 1 ELSE 0
         IN Printed(Shown(setLatestTimestamp(w, next), 0, NoFilter, <<>>), undefined)
  ELSE IF options.get
    THEN Printed(Shown(getDb(w), 0, NoFilter, <<>>),
                 Console("get", OrNotSet(getLatestTimestamp(w)), undefined))
  ELSE IF options.json
    THEN Printed(Shown(getDb(w), 0, NoFilter, <<>>),
                 Console("json", Coalesce(getLatestTimestamp(w), null),
                         Coalesce(getLastSeenTimestamp(w), null)))
  ELSE Printed(Shown(getDb(w), 0, NoFilter, <<>>),
               Console("status", OrNotSet(getLatestTimestamp(w)),
                       OrNotSet(getLastSeenTimestamp(w))))

timestampCommand(w, options) ==
  IF options.set # NoStr
    THEN LET num == parseInt(options.set[1])
         IN IF isNaN(num) THEN Printed(Refused(w, INVALID_VALUE), undefined)
            ELSE Printed(Shown(setLatestTimestamp(w, num.v), 0, NoFilter, <<>>), undefined)
  ELSE IF options.setLastSeen # NoStr
    THEN LET num == parseInt(options.setLastSeen[1])
         IN IF isNaN(num) THEN Printed(Refused(w, INVALID_VALUE), undefined)
            ELSE Printed(Shown(setLastSeenTimestamp(w, num.v), 0, NoFilter, <<>>), undefined)
  ELSE IF options.rollforward
    THEN LET lastSeen == getLastSeenTimestamp(w)
             next == IF lastSeen # undefined THEN lastSeen.v + 1 ELSE 0
         IN Printed(Shown(setLatestTimestamp(w, next), 0, NoFilter, <<>>), undefined)
  ELSE IF options.get
    THEN Printed(Shown(getDb(w), 0, NoFilter, <<>>),
                 Console("get", OrNotSet(getLatestTimestamp(w)), undefined))
  ELSE IF options.json
    THEN Printed(Shown(getDb(w), 0, NoFilter, <<>>),
                 Console("json", Coalesce(getLatestTimestamp(w), null),
                         Coalesce(getLastSeenTimestamp(w), null)))
  ELSE Printed(Shown(getDb(w), 0, NoFilter, <<>>),
               Console("status", OrNotSet(getLatestTimestamp(w)),
                       OrNotSet(getLastSeenTimestamp(w))))

(***************************************************************************)
(* The timestamp command of the earlier revision, with one positional      *)
(* argument: none (status), "latest", "reset" or a number.                 *)
(***************************************************************************)
resetWord == <<"r", "e", "s", "e", "t">>

\* variant: "latest" writes both entries, as its message says
legacyTimestampCommand_sync(w, value) ==
  IF value = NoStr
    THEN Printed(Shown(getDb(w), 0, NoFilter, <<>>),
                 Console("status", OrNotSet(getLatestTimestamp(w)),
                         OrNotSet(getLastSeenTimestamp(w))))
  ELSE IF value[1] = latestWord
    THEN LET stored == getLastSeenTimestamp(w)
             lastSeen == IF stored = undefined THEN 0 ELSE stored.v + 1
         IN Printed(Shown(setLastSeenTimestamp(setLatestTimestamp(w, lastSeen), lastSeen),
                          0, NoFilter, <<>>), undefined)
  ELSE IF value[1] = resetWord
    THEN Printed(Shown(setLastSeenTimestamp(setLatestTimestamp(w, 0), 0), 0, NoFilter, <<>>),
                 undefined)
  ELSE LET num == parseInt(value[1])
       IN IF isNaN(num) THEN Printed(Refused(w, INVALID_VALUE), undefined)
          ELSE Printed(Shown(setLatestTimestamp(w, num.v), 0, NoFilter, <<>>), undefined)

\* variant: "latest" copies last_seen as it is, without the increment
legacyTimestampCommand_copy(w, value) ==
  IF value = NoStr
    THEN Printed(Shown(getDb(w), 0, NoFilter, <<>>),
                 Console("status", OrNotSet(getLatestTimestamp(w)),
                         OrNotSet(getLastSeenTimestamp(w))))
  ELSE IF value[1] = latestWord
    THEN LET stored == getLastSeenTimestamp(w)
             lastSeen == IF stored = undefined THEN 0 ELSE stored.v
         IN Printed(Shown(setLatestTimestamp(w, lastSeen), 0, NoFilter, <<>>), undefined)
  ELSE IF value[1] = resetWord
    THEN Printed(Shown(setLastSeenTimestamp(setLatestTimestamp(w, 0), 0), 0, NoFilter, <<>>),
                 undefined)
  ELSE LET num == parseInt(value[1])
       IN IF isNaN(num) THEN Printed(Refused(w, INVALID_VALUE), undefined)
          ELSE Printed(Shown(setLatestTimestamp(w, num.v), 0, NoFilter, <<>>), undefined)

legacyTimestampCommand(w, value) ==
  IF value = NoStr
    THEN Printed(Shown(getDb(w), 0, NoFilter, <<>>),
                 Console("status", OrNotSet(getLatestTimestamp(w)),
                         OrNotSet(getLastSeenTimestamp(w))))
  ELSE IF value[1] = latestWord
    THEN LET stored == getLastSeenTimestamp(w)
             lastSeen == IF stored = undefined THEN 0 ELSE stored.v + 1
         IN Printed(Shown(setLatestTimestamp(w, lastSeen), 0, NoFilter, <<>>), undefined)
  ELSE IF value[1] = resetWord
    THEN Printed(Shown(setLastSeenTimestamp(setLatestTimestamp(w, 0), 0), 0, NoFilter, <<>>),
                 undefined)
  ELSE LET num == parseInt(value[1])
       IN IF isNaN(num) THEN Printed(Refused(w, INVALID_VALUE), undefined)
          ELSE Printed(Shown(setLatestTimestamp(w, num.v), 0, NoFilter, <<>>), undefined)

(***************************************************************************)
(* The commands as wired in the CLI: the action of each polling command    *)
(* resolves --since and --until while it builds the options, calls the     *)
(* command inside try, and closes the store in finally.  process.exit      *)
(* ends the process at once, finally blocks included.                      *)
(***************************************************************************)
\* variant: a bound that does not resolve is left out of the filter
resolveOptions_lenient(w, argv) ==
  LET since == resolveTimestampParam(w, argv.since)
      until == resolveTimestampParam(since.w, argv.until)
  IN [res |-> Return([since |-> since.res.value, until |-> until.res.value,
                      sinceLatest |-> FALSE]),
      w |-> until.w]

\* since: resolveTimestampParam(options.since), until: resolveTimestampParam(options.until)
resolveOptions(w, argv) ==
  LET since == resolveTimestampParam(w, argv.since)
  IN IF since.res.t = "exit" THEN since
     ELSE LET until == resolveTimestampParam(since.w, argv.until)
          IN IF until.res.t = "exit" THEN until
             ELSE [res |-> Return([since |-> since.res.value, until |-> until.res.value,
                                   sinceLatest |-> FALSE]),
                   w |-> until.w]

\* finally { closePool(); closeStore(); }, reached when the command returned
Finally(r) == IF r.phase = "returned" THEN [r EXCEPT !.w = closeStore(r.w)] ELSE r

notificationsAction(w, argv, keyPair, answer) ==
  LET o == resolveOptions(w, argv)
  IN IF o.res.t = "exit" THEN Refused(o.w, o.res.msg)
     ELSE Finally(notificationsCommand(o.w, o.res.value, keyPair, answer))

showAction(w, input, argv, originalPost, answer) ==
  LET o == resolveOptions(w, argv)
  IN IF o.res.t = "exit" THEN Refused(o.w, o.res.msg)
     ELSE Finally(showCommand(o.w, input, o.res.value, originalPost, answer))

recentAction(w, argv, answer) ==
  LET o == resolveOptions(w, argv)
  IN IF o.res.t = "exit" THEN Refused(o.w, o.res.msg)
     ELSE Finally(recentCommand(o.w, o.res.value, answer))

searchAction(w, query, argv, answer) ==
  LET o == resolveOptions(w, argv)
  IN IF o.res.t = "exit" THEN Refused(o.w, o.res.msg)
     ELSE Finally(searchCommand(o.w, query, o.res.value, answer))

timestampAction(w, options) == Finally(timestampCommand(w, options))

(***************************************************************************)
(* Inputs.                                                                 *)
(***************************************************************************)
\* event batches of a relay answer, in the order the relay returns them
RECURSIVE Batches(_)
Batches(n) ==
  IF n = 0 THEN {<<>>}
  ELSE Batches(n - 1) \cup
       {Append(b, [created_at |-> t]) : b \in {x \in Batches(n - 1) : Len(x) = n - 1},
                                        t \in 0..MaxCreatedAt}

EventBatches == Batches(MaxEvents)

Answers == {Returned(b) : b \in EventBatches} \cup {Raised}

\* values of --since / --until given to the polling commands
SinceArgs == {NoStr, Str(latestWord), Str(<<"1">>), Str(<<"x">>)}
UntilArgs == {NoStr, Str(latestWord), Str(<<"2">>)}

\* values given to resolveTimestampParam directly
ResolveArgs == SinceArgs \cup UntilArgs \cup
  {Str(<<>>), Str(<<" ">>), Str(<<" ", "\t">>), Str(<<"0">>), Str(<<"-", "1">>),
   Str(<<"1", "0">>), Str(<<" ", "7">>), Str(<<"7", " ">>), Str(<<"+", "3">>),
   Str(<<"-">>), Str(<<"1", ".", "5">>), Str(<<"1", "2", "a", "b", "c">>),
   Str(<<"n", "o", "t", "-", "a">>), Str(<<"L", "a", "t", "e", "s", "t">>)}

\* values of --set / --set-last-seen
AdminArgs == {Str(<<"0">>), Str(<<"9">>), Str(<<"a", "b", "c">>), Str(<<"9", "x">>)}

NoOptions ==
  [get |-> FALSE, set |-> NoStr, setLastSeen |-> NoStr, rollforward |-> FALSE, json |-> FALSE]

\* the invocations of the timestamp command with at most one option
TimestampModes ==
  {NoOptions, [NoOptions EXCEPT !.get = TRUE], [NoOptions EXCEPT !.json = TRUE],
   [NoOptions EXCEPT !.rollforward = TRUE]}
    \cup {[NoOptions EXCEPT !.set = v] : v \in AdminArgs}
    \cup {[NoOptions EXCEPT !.setLastSeen = v] : v \in AdminArgs}

\* every combination of options the timestamp command can be given
AllTimestampOptions ==
  [get : BOOLEAN, set : {NoStr} \cup AdminArgs, setLastSeen : {NoStr} \cup AdminArgs,
   rollforward : BOOLEAN, json : BOOLEAN]

\* integers given to setLatestTimestamp / setLastSeenTimestamp directly
StoreInts == {-1, 0, 9, 10}

(***************************************************************************)
(* The record of the latest call or invocation.  An invocation that ends   *)
(* after a relay query keeps the events it got and drops its arguments.    *)
(***************************************************************************)
Invoked(cmd, arg, since, until, options, bounds, r) ==
  [cmd |-> cmd, arg |-> arg, since |-> since, until |-> until, options |-> options,
   bounds |-> bounds, phase |-> r.phase, code |-> r.code, msg |-> r.msg,
   queries |-> r.queries, filter |-> r.filter, events |-> r.events,
   failed |-> r.failed, value |-> undefined]

Answered(cmd, arg, r) ==
  IF r.phase = "awaiting"
    THEN Invoked(cmd, arg, last.since, last.until, NoOptions, last.bounds, r)
    ELSE Invoked(cmd, arg, NoStr, NoStr, NoOptions, NoFilter, [r EXCEPT !.filter = NoFilter])

Called(cmd, value, events, res) ==
  [cmd |-> cmd, arg |-> "none", since |-> value, until |-> NoStr, options |-> NoOptions,
   bounds |-> NoFilter, phase |-> IF res.t = "exit" THEN "exited" ELSE "returned",
   code |-> res.code, msg |-> res.msg, queries |-> 0, filter |-> NoFilter,
   events |-> events, failed |-> FALSE, value |-> res.value]

PollCmds == {"notifications", "show", "recent", "search"}

Init ==
  /\ kv = [k \in TableKeys |-> NoStr]
  /\ db = "null"
  /\ last = Called("start", NoStr, <<>>, Return(undefined))

Argv(since, until) == [since |-> since, until |-> until]

\* no command is suspended: the shell runs one command at a time
Idle == last.phase # "awaiting"

\* the bounds the action resolved, kept by the suspended command
Bounds(w, argv) ==
  LET o == resolveOptions(w, argv)
  IN IF o.res.t = "exit" THEN NoFilter ELSE Filter(o.res.value)

\* the options of the suspended command
Options == [since |-> last.bounds.since, until |-> last.bounds.until, sinceLatest |-> FALSE]

(***************************************************************************)
(* Actions of the CLI.  An invocation is a process of its own: it starts   *)
(* without a connection and its connection ends with it.  A polling        *)
(* command is invoked, and runs up to its exit or to its relay query;      *)
(* when the relay answers it runs to its end.                              *)
(***************************************************************************)
Notifications ==
  /\ Idle
  /\ \E since \in SinceArgs, until \in UntilArgs, keyPair \in BOOLEAN :
       \E r \in {notificationsAction(World(kv, "null"), Argv(since, until), keyPair, Pending)} :
          /\ kv' = r.w.kv
          /\ last' = Invoked("notifications", IF keyPair THEN "key" ELSE "nokey",
                             since, until, NoOptions, Bounds(World(kv, "null"), Argv(since, until)), r)
          /\ UNCHANGED db

NotificationsAnswer ==
  /\ last.phase = "awaiting" /\ last.cmd = "notifications"
  /\ \E answer \in Answers :
       \E r \in {Finally(notificationsCommand(World(kv, "null"), Options, TRUE, answer))} :
          /\ kv' = r.w.kv
          /\ last' = Answered("notifications", last.arg, r)
          /\ UNCHANGED db

Show ==
  /\ Idle
  /\ \E since \in SinceArgs, until \in UntilArgs,
        input \in {"empty", "subclaw", "event", "invalid"} :
       \E r \in {showAction(World(kv, "null"), input, Argv(since, until), Pending, Pending)} :
          /\ kv' = r.w.kv
          /\ last' = Invoked("show", input, since, until, NoOptions,
                             Bounds(World(kv, "null"), Argv(since, until)), r)
          /\ UNCHANGED db

\* the relay answers the query for the post itself
ShowPostAnswer ==
  /\ last.phase = "awaiting" /\ last.cmd = "show" /\ last.arg = "event" /\ last.queries = 1
  /\ \E originalPost \in {Raised, Returned(<<>>)} :
       \E r \in {Finally(showCommand(World(kv, "null"), last.arg, Options, originalPost, Pending))} :
          /\ kv' = r.w.kv
          /\ last' = Answered("show", last.arg, r)
          /\ UNCHANGED db

\* the relay answers the query for the feed, or for the comments
ShowAnswer ==
  /\ last.phase = "awaiting" /\ last.cmd = "show"
  /\ last.arg = "event" => last.queries = 2
  /\ \E answer \in Answers :
       \E r \in {Finally(showCommand(World(kv, "null"), last.arg, Options, Returned(<<>>), answer))} :
          /\ kv' = r.w.kv
          /\ last' = Answered("show", last.arg, r)
          /\ UNCHANGED db

Recent ==
  /\ Idle
  /\ \E since \in SinceArgs, until \in UntilArgs :
       \E r \in {recentAction(World(kv, "null"), Argv(since, until), Pending)} :
          /\ kv' = r.w.kv
          /\ last' = Invoked("recent", "none", since, until, NoOptions,
                             Bounds(World(kv, "null"), Argv(since, until)), r)
          /\ UNCHANGED db

RecentAnswer ==
  /\ last.phase = "awaiting" /\ last.cmd = "recent"
  /\ \E answer \in Answers :
       \E r \in {Finally(recentCommand(World(kv, "null"), Options, answer))} :
          /\ kv' = r.w.kv
          /\ last' = Answered("recent", last.arg, r)
          /\ UNCHANGED db

Search ==
  /\ Idle
  /\ \E since \in SinceArgs, until \in UntilArgs, query \in {"blank", "text"} :
       \E r \in {searchAction(World(kv, "null"), query, Argv(since, until), Pending)} :
          /\ kv' = r.w.kv
          /\ last' = Invoked("search", query, since, until, NoOptions,
                             Bounds(World(kv, "null"), Argv(since, until)), r)
          /\ UNCHANGED db

SearchAnswer ==
  /\ last.phase = "awaiting" /\ last.cmd = "search"
  /\ \E answer \in Answers :
       \E r \in {Finally(searchCommand(World(kv, "null"), last.arg, Options, answer))} :
          /\ kv' = r.w.kv
          /\ last' = Answered("search", last.arg, r)
          /\ UNCHANGED db

Timestamp ==
  /\ Idle
  /\ \E options \in TimestampModes :
       \E r \in {timestampAction(World(kv, "null"), options)} :
          /\ kv' = r.w.kv
          /\ last' = [Invoked("timestamp", "none", NoStr, NoStr, options, NoFilter, r)
                        EXCEPT !.value = r.out]
          /\ UNCHANGED db

Next ==
  \/ Notifications
  \/ NotificationsAnswer
  \/ Show
  \/ ShowPostAnswer
  \/ ShowAnswer
  \/ Recent
  \/ RecentAnswer
  \/ Search
  \/ SearchAnswer
  \/ Timestamp

Spec == Init /\ [][Next]_vars

(***************************************************************************)
(* Actions of the library called directly, as the unit tests call it, in   *)
(* one process.  A process.exit ends that process and its connection.      *)
(***************************************************************************)
ResolveTimestampParam ==
  \E value \in ResolveArgs :
    \E r \in {resolveTimestampParam(World(kv, db), value)} :
       /\ kv' = r.w.kv
       /\ db' = IF r.res.t = "exit" THEN "null" ELSE r.w.db
       /\ last' = Called("resolveTimestampParam", value, <<>>, r.res)

TrackLatestTimestamp ==
  \E events \in EventBatches :
    \E w \in {trackLatestTimestamp(World(kv, db), events)} :
       /\ kv' = w.kv
       /\ db' = w.db
       /\ last' = Called("trackLatestTimestamp", NoStr, events, Return(undefined))

SetLatestTimestamp ==
  \E ts \in StoreInts :
    \E w \in {setLatestTimestamp(World(kv, db), ts)} :
       /\ kv' = w.kv
       /\ db' = w.db
       /\ last' = Called("setLatestTimestamp", NoStr, <<>>, Return(Num(ts)))

SetLastSeenTimestamp ==
  \E ts \in StoreInts :
    \E w \in {setLastSeenTimestamp(World(kv, db), ts)} :
       /\ kv' = w.kv
       /\ db' = w.db
       /\ last' = Called("setLastSeenTimestamp", NoStr, <<>>, Return(Num(ts)))

CloseStore ==
  \E w \in {closeStore(World(kv, db))} :
     /\ kv' = w.kv
     /\ db' = w.db
     /\ last' = Called("closeStore", NoStr, <<>>, Return(undefined))

LibNext ==
  \/ ResolveTimestampParam
  \/ TrackLatestTimestamp
  \/ SetLatestTimestamp
  \/ SetLastSeenTimestamp
  \/ CloseStore

LibSpec == Init /\ [][LibNext]_vars

(***************************************************************************)
(* The cursor operations side by side on one store: the library, the       *)
(* timestamp command of both revisions, and another user of the table.     *)
(***************************************************************************)
\* the positional argument of the earlier timestamp command
LegacyArgs == {NoStr, Str(latestWord), Str(resetWord)} \cup AdminArgs

LegacyTimestamp ==
  /\ Idle
  /\ \E value \in LegacyArgs :
       \E r \in {legacyTimestampCommand(World(kv, "null"), value)} :
          /\ kv' = r.w.kv
          /\ last' = [Invoked("legacy timestamp", "none", value, NoStr, NoOptions, NoFilter, r)
                        EXCEPT !.value = r.out]
          /\ UNCHANGED db

\* values another user of the table stores
FooValues == {<<"b", "a", "r">>, <<"b", "a", "z">>}

KvSet ==
  \E value \in FooValues :
    \E w \in {kvSet(World(kv, db), FOO, value)} :
       /\ kv' = w.kv
       /\ db' = w.db
       /\ last' = Called("kvSet", NoStr, <<>>, Return(undefined))

KvDelete ==
  \E w \in {kvDelete(World(kv, db), FOO)} :
     /\ kv' = w.kv
     /\ db' = w.db
     /\ last' = Called("kvDelete", NoStr, <<>>, Return(undefined))

AdminNext ==
  \/ Timestamp
  \/ LegacyTimestamp
  \/ TrackLatestTimestamp
  \/ SetLatestTimestamp
  \/ SetLastSeenTimestamp
  \/ KvSet
  \/ KvDelete

AdminSpec == Init /\ [][AdminNext]_vars

(***************************************************************************)
(* The table used as a plain key/value store, as store.test.ts uses it:    *)
(* any key, any string.                                                    *)
(***************************************************************************)
KvValues == FooValues \cup {<<"1">>, <<>>}

KvSetKey ==
  \E key \in TableKeys, value \in KvValues :
    \E w \in {kvSet(World(kv, db), key, value)} :
       /\ kv' = w.kv
       /\ db' = w.db
       /\ last' = [Called("kvSet", Str(value), <<>>, Return(undefined)) EXCEPT !.arg = key]

KvDeleteKey ==
  \E key \in TableKeys :
    \E w \in {kvDelete(World(kv, db), key)} :
       /\ kv' = w.kv
       /\ db' = w.db
       /\ last' = [Called("kvDelete", NoStr, <<>>, Return(undefined)) EXCEPT !.arg = key]

\* the value read is kept in last.since
KvGetKey ==
  \E key \in TableKeys :
    \E w \in {getDb(World(kv, db))} :
       /\ kv' = w.kv
       /\ db' = w.db
       /\ last' = [Called("kvGet", kvGet(World(kv, db), key), <<>>, Return(undefined))
                     EXCEPT !.arg = key]

KvNext ==
  \/ KvSetKey
  \/ KvDeleteKey
  \/ KvGetKey
  \/ CloseStore

KvSpec == Init /\ [][KvNext]_vars

(***************************************************************************)
(* The two ways of advancing last_seen, the store's and the cursor         *)
(* policy's, on one store.                                                 *)
(***************************************************************************)
\* createdAt values given to updateLastSeenTimestamp directly
CreatedAts == (0..MaxCreatedAt) \cup {8, 9}

UpdateLastSeenTimestamp ==
  \E createdAt \in CreatedAts :
    \E w \in {updateLastSeenTimestamp(World(kv, db), createdAt)} :
       /\ kv' = w.kv
       /\ db' = w.db
       /\ last' = Called("updateLastSeenTimestamp", NoStr, <<>>, Return(Num(createdAt)))

UpdateNext ==
  \/ UpdateLastSeenTimestamp
  \/ TrackLatestTimestamp
  \/ SetLatestTimestamp
  \/ SetLastSeenTimestamp
  \/ CloseStore

UpdateSpec == Init /\ [][UpdateNext]_vars

(***************************************************************************)
(* deleteCommand (NIP-09).  A 64-digit event id is written as one letter:  *)
(* "a" and "A" are the same id in lower and upper case, "note1a" is its    *)
(* NIP-19 form.  The run of the command is a record:                       *)
(*   eventRefs, keyPair  what it was given                                 *)
(*   i         the reference the loop is at                                *)
(*   toDelete  the ids and kinds resolved so far                           *)
(*   calls     the calls made to the relay and signer libraries, in order  *)
(*   found     the events queryEventById has returned, in order            *)
(*   tags      the tags given to createSignedEvent                         *)
(*   waiting   the await it is suspended in                                *)
(***************************************************************************)
\* ref?.trim() is empty
IsBlankRef(ref) == ref \in {"", " "}

isNip19(ref) == ref \in {"note1a", "note1b"}

extractEventId(ref) == IF ref = "note1a" THEN "a" ELSE "b"

\* /^[0-9a-f]{64}$/i
IsHexId(ref) == ref \in {"a", "A", "b", "B"}

toLowerCase(ref) == IF ref = "A" THEN "a" ELSE IF ref = "B" THEN "b" ELSE ref

NotFound == [t |-> "null", pubkey |-> "none", kind |-> 0]
Event(pubkey, kind) == [t |-> "event", pubkey |-> pubkey, kind |-> kind]

\* the user's own public key
publicKey == "me"

DeleteRun(eventRefs, keyPair) ==
  [t |-> "delete", v |-> 0, eventRefs |-> eventRefs, keyPair |-> keyPair, i |-> 1,
   toDelete |-> <<>>, calls |-> <<>>, found |-> <<>>, tags |-> <<>>,
   phase |-> "running", code |-> 0, msg |-> "none", waiting |-> "none"]

DeleteExit(st, msg) == [st EXCEPT !.phase = "exited", !.code = 1, !.msg = msg, !.waiting = "none"]

\* tags: e and k of each id of toDelete, an id that was seen is skipped
RECURSIVE DeleteTags(_, _)
DeleteTags(toDelete, seenIds) ==
  IF toDelete = <<>> THEN <<>>
  ELSE IF Head(toDelete).id \in seenIds THEN DeleteTags(Tail(toDelete), seenIds)
  ELSE <<[name |-> "e", id |-> Head(toDelete).id], [name |-> "k", kind |-> Head(toDelete).kind]>>
       \o DeleteTags(Tail(toDelete), seenIds \cup {Head(toDelete).id})

\* after the loop: build the tags, createSignedEvent, await publishEvent
deletePublish(st, signer) ==
  IF signer = "throws"
    THEN DeleteExit([st EXCEPT !.tags = DeleteTags(st.toDelete, {}),
                               !.calls = Append(@, "createSignedEvent")], "Error")
    ELSE [st EXCEPT !.tags = DeleteTags(st.toDelete, {}),
                    !.calls = @ \o <<"createSignedEvent", "publishEvent">>,
                    !.phase = "awaiting", !.waiting = "publishEvent"]

\* the loop, from reference st.i up to its next await
RECURSIVE deleteResolve(_, _)
deleteResolve(st, signer) ==
  IF st.i > Len(st.eventRefs) THEN deletePublish(st, signer)
  ELSE IF IsBlankRef(st.eventRefs[st.i]) THEN deleteResolve([st EXCEPT !.i = @ + 1], signer)
  ELSE IF isNip19(st.eventRefs[st.i]) \/ IsHexId(st.eventRefs[st.i])
    THEN [st EXCEPT !.calls = Append(@, "queryEventById"),
                    !.phase = "awaiting", !.waiting = "queryEventById"]
    ELSE DeleteExit(st, "Invalid event reference")

\* the id the loop is querying
eventId(st) ==
  IF isNip19(st.eventRefs[st.i]) THEN extractEventId(st.eventRefs[st.i])
  ELSE toLowerCase(st.eventRefs[st.i])

\* variant: the author of the event is not compared with the user's key
deleteVerify_anyAuthor(st, event, signer) ==
  IF event = NotFound THEN DeleteExit([st EXCEPT !.found = Append(@, event)], "not found")
  ELSE deleteResolve([st EXCEPT !.found = Append(@, event),
                                !.toDelete = Append(@, [id |-> eventId(st), kind |-> event.kind]),
                                !.i = @ + 1], signer)

\* queryEventById has returned: found, and authored by the user?
deleteVerify(st, event, signer) ==
  IF event = NotFound THEN DeleteExit([st EXCEPT !.found = Append(@, event)], "not found")
  ELSE IF event.pubkey # publicKey
    THEN DeleteExit([st EXCEPT !.found = Append(@, event)], "not authored by you")
  ELSE deleteResolve([st EXCEPT !.found = Append(@, event),
                                !.toDelete = Append(@, [id |-> eventId(st), kind |-> event.kind]),
                                !.i = @ + 1], signer)

\* publishEvent has returned the relays it reached, or raised
deletePublished(st, published) ==
  IF published = "some" THEN [st EXCEPT !.phase = "returned", !.waiting = "none"]
  ELSE IF published = "none" THEN DeleteExit(st, "Failed to publish to any relay")
  ELSE DeleteExit(st, "Error")

deleteCommand(eventRefs, keyPair, signer) ==
  IF Len(eventRefs) = 0 \/ \A n \in 1..Len(eventRefs) : IsBlankRef(eventRefs[n])
    THEN DeleteExit(DeleteRun(eventRefs, keyPair), "At least one event reference is required")
  ELSE IF ~keyPair THEN DeleteExit(DeleteRun(eventRefs, keyPair), "No secret key found")
  ELSE deleteResolve(DeleteRun(eventRefs, keyPair), signer)

\* references given on the command line
Refs == {" ", "not-valid-id", "a", "A", "b", "note1a", "note1b"}

RECURSIVE RefLists(_)
RefLists(n) ==
  IF n = 0 THEN {<<>>}
  ELSE RefLists(n - 1) \cup
       {Append(l, ref) : l \in {x \in RefLists(n - 1) : Len(x) = n - 1}, ref \in Refs}

\* what queryEventById returns
Kinds == {1111}
QueryAnswers == {NotFound} \cup {Event(pubkey, kind) : pubkey \in {publicKey, "other"}, kind \in Kinds}

Signers == {"signs", "throws"}
PublishAnswers == {"some", "none", "raised"}

Deleting(st) ==
  [Called("delete", NoStr, <<>>, Return(undefined))
     EXCEPT !.phase = st.phase, !.code = st.code, !.msg = st.msg, !.value = st]

Delete ==
  /\ Idle
  /\ \E eventRefs \in RefLists(MaxRefs), keyPair \in BOOLEAN :
       \* a query comes before createSignedEvent on every path: the signer is met later
       \E st \in {deleteCommand(eventRefs, keyPair, "signs")} :
          /\ last' = Deleting(st)
          /\ UNCHANGED <<kv, db>>

DeleteQueryAnswer ==
  /\ last.cmd = "delete" /\ last.phase = "awaiting" /\ last.value.waiting = "queryEventById"
  /\ \E event \in QueryAnswers, signer \in Signers :
       \E st \in {deleteVerify(last.value, event, signer)} :
          /\ last' = Deleting(st)
          /\ UNCHANGED <<kv, db>>

DeletePublishAnswer ==
  /\ last.cmd = "delete" /\ last.phase = "awaiting" /\ last.value.waiting = "publishEvent"
  /\ \E published \in PublishAnswers :
       \E st \in {deletePublished(last.value, published)} :
          /\ last' = Deleting(st)
          /\ UNCHANGED <<kv, db>>

DeleteNext ==
  \/ Delete
  \/ DeleteQueryAnswer
  \/ DeletePublishAnswer

DeleteSpec == Init /\ [][DeleteNext]_vars

(***************************************************************************)
(* Every command that touches the cursor: the CLI and the earlier          *)
(* timestamp command, one command at a time.                               *)
(***************************************************************************)
CursorNext ==
  \/ Next
  \/ LegacyTimestamp

CursorSpec == Init /\ [][CursorNext]_vars

(***************************************************************************)
(* The timestamp command given any combination of its options, with        *)
(* last_seen set in between.                                               *)
(***************************************************************************)
TimestampOptions ==
  /\ Idle
  /\ \E options \in AllTimestampOptions :
       \E r \in {timestampAction(World(kv, "null"), options)} :
          /\ kv' = r.w.kv
          /\ last' = [Invoked("timestamp", "none", NoStr, NoStr, options, NoFilter, r)
                        EXCEPT !.value = r.out]
          /\ UNCHANGED db

OptionsNext ==
  \/ TimestampOptions
  \/ SetLastSeenTimestamp

OptionsSpec == Init /\ [][OptionsNext]_vars

(***************************************************************************)
(* Reading the state in the claims.                                        *)
(***************************************************************************)
\* the integer an entry holds: the n whose decimal text is the stored string
Stored(table, key) ==
  IF table[key] = NoStr THEN undefined
  ELSE Num(CHOOSE n \in -40..40 : String(n) = table[key][1])

Present(table, key) == table[key] # NoStr

\* a poll that ran to its end on a relay answer, and the newest created_at it saw
PollSucceeded(l) == l.cmd \in PollCmds /\ l.phase = "returned"

Newest(events) == CHOOSE m \in 0..(MaxCreatedAt + 1) :
  /\ \E i \in 1..Len(events) : events[i].created_at = m
  /\ \A i \in 1..Len(events) : events[i].created_at <= m

\* the lower bound a poll with --since latest would put in its filter
SinceLatest(table) == Bounds(World(table, "null"), Argv(Str(latestWord), NoStr)).since

\* created_at values a relay may hold
Universe == 0..(MaxCreatedAt + 4)

(***************************************************************************)
(* C1: after a poll that saw newest timestamp M and advanced last_seen,    *)
(* followed by timestamp --rollforward, a poll with --since latest (the    *)
(* relay returning the events with created_at >= since) gets exactly the   *)
(* events newer than M: none with created_at <= M, all with created_at > M.*)
(* The code stores M + 1 and rolls forward to M + 2: M + 1 is skipped.     *)
(***************************************************************************)
C1_RollForwardResumesAfterNewest ==
  [][(/\ PollSucceeded(last) /\ last.events # <<>>
      /\ Stored(kv, LAST_SEEN_TIMESTAMP) = Num(Newest(last.events) + 1)
      /\ last'.cmd = "timestamp" /\ last'.options.rollforward /\ last'.phase = "returned")
     => /\ SinceLatest(kv').t = "number"
        /\ \A t \in Universe :
             (t >= SinceLatest(kv').v) <=> (t > Newest(last.events))]_vars

(***************************************************************************)
(* C2: under trackLatestTimestamp the stored last_seen never decreases; a  *)
(* batch whose max + 1 is not above the stored value leaves it unchanged.  *)
(* The code overwrites last_seen with max + 1 whatever it held.            *)
(***************************************************************************)
C2_LastSeenMonotonic ==
  [][(last'.cmd = "trackLatestTimestamp" /\ Present(kv, LAST_SEEN_TIMESTAMP))
     => /\ Present(kv', LAST_SEEN_TIMESTAMP)
        /\ Stored(kv', LAST_SEEN_TIMESTAMP).v >= Stored(kv, LAST_SEEN_TIMESTAMP).v
        /\ (last'.events # <<>>
            /\ Newest(last'.events) + 1 <= Stored(kv, LAST_SEEN_TIMESTAMP).v)
           => kv'[LAST_SEEN_TIMESTAMP] = kv[LAST_SEEN_TIMESTAMP]]_vars

(***************************************************************************)
(* C3: on a non-empty batch trackLatestTimestamp writes last_seen :=       *)
(* max + 1 exactly when that is above the stored value or none is stored,  *)
(* and keeps last_seen otherwise; timestamps equal to 0 included.          *)
(***************************************************************************)
C3_AdvanceIffGreater ==
  [][(last'.cmd = "trackLatestTimestamp" /\ last'.events # <<>>)
     => LET next == Newest(last'.events) + 1
        IN IF \/ ~Present(kv, LAST_SEEN_TIMESTAMP)
              \/ next > Stored(kv, LAST_SEEN_TIMESTAMP).v
             THEN Stored(kv', LAST_SEEN_TIMESTAMP) = Num(next)
             ELSE kv'[LAST_SEEN_TIMESTAMP] = kv[LAST_SEEN_TIMESTAMP]]_vars

(***************************************************************************)
(* C4: trackLatestTimestamp leaves the latest entry as it was, present or  *)
(* absent, for every batch and every store.                                *)
(***************************************************************************)
C4_TrackKeepsLatest ==
  [][last'.cmd = "trackLatestTimestamp"
     => kv'[LATEST_TIMESTAMP] = kv[LATEST_TIMESTAMP]]_vars

\* a batch was tracked and written while latest held another value
C4_Witness ==
  /\ last.cmd = "trackLatestTimestamp" /\ last.events # <<>>
  /\ Stored(kv, LAST_SEEN_TIMESTAMP) = Num(Newest(last.events) + 1)
  /\ Stored(kv, LATEST_TIMESTAMP) = Num(9)

IsDecimalInteger(s) ==
  LET u == IF s # <<>> /\ Head(s) \in {"-", "+"} THEN Tail(s) ELSE s
  IN u # <<>> /\ \A i \in 1..Len(u) : IsDigit(u[i])

RECURSIVE DecimalValue(_)
DecimalValue(u) ==
  IF u = <<>> THEN 0
  ELSE IF Head(u) = "-" THEN 0 - DecimalValue(Tail(u))
  ELSE IF Head(u) = "+" THEN DecimalValue(Tail(u))
  ELSE DecimalValue(SubSeq(u, 1, Len(u) - 1)) * 10 + DigitVal(u[Len(u)])

C6_ResolveRejectsNonIntegers ==
  (last.cmd = "resolveTimestampParam" /\ last.since # NoStr /\ last.since # Str(latestWord))
  => IF IsDecimalInteger(last.since[1])
       THEN last.phase = "returned" /\ last.value = Num(DecimalValue(last.since[1]))
       ELSE last.phase = "exited" /\ last.msg = INVALID_VALUE

(***************************************************************************)
(* C7: resolveTimestampParam only reads the store: undefined resolves to   *)
(* undefined, and whatever it is given, and whether it returns or fails,   *)
(* latest and last_seen are afterwards what they were.                     *)
(***************************************************************************)
C7_ResolveIsPureRead ==
  [][last'.cmd = "resolveTimestampParam"
     => /\ kv' = kv
        /\ last'.since = NoStr => last'.phase = "returned" /\ last'.value = undefined]_vars

\* undefined resolved on a store that holds both entries
C7_Witness ==
  /\ last.cmd = "resolveTimestampParam" /\ last.since = NoStr
  /\ last.phase = "returned" /\ last.value = undefined
  /\ Present(kv, LATEST_TIMESTAMP) /\ Present(kv, LAST_SEEN_TIMESTAMP)

(***************************************************************************)
(* C8: a polling command whose --since or --until does not resolve ends    *)
(* with a non-zero exit code, before any relay query and without any write *)
(* to the store, whether or not the other bound resolved.                  *)
(***************************************************************************)
ResolveFails(table, value) ==
  resolveTimestampParam(World(table, "null"), value).res.t = "exit"

C8_FailedResolutionAborts ==
  [][(/\ Idle /\ last'.cmd \in PollCmds
      /\ ResolveFails(kv, last'.since) \/ ResolveFails(kv, last'.until))
     => /\ last'.phase = "exited" /\ last'.code # 0
        /\ last'.queries = 0
        /\ kv' = kv]_vars

\* --since resolved, --until latest did not, on a store that holds last_seen
C8_Witness ==
  /\ last.cmd \in PollCmds /\ last.phase = "exited" /\ last.queries = 0
  /\ last.since = Str(<<"1">>) /\ last.until = Str(latestWord)
  /\ last.msg = NO_LATEST
  /\ Present(kv, LAST_SEEN_TIMESTAMP)

(***************************************************************************)
(* C9: every polling command that ran to its end on a relay answer with    *)
(* at least one event, newest timestamp M, leaves last_seen >= M + 1.      *)
(* Stated for M >= 1; recent, as the CLI calls it, never tracks.           *)
(***************************************************************************)
C9_EveryPollAdvances ==
  (PollSucceeded(last) /\ last.events # <<>> /\ Newest(last.events) >= 1)
  => /\ Present(kv, LAST_SEEN_TIMESTAMP)
     /\ Stored(kv, LAST_SEEN_TIMESTAMP).v >= Newest(last.events) + 1

(***************************************************************************)
(* C10: when the relay query of a polling command raises an error the      *)
(* command ends with a non-zero exit code and the store is what it was     *)
(* when the command was invoked: no step of the invocation wrote to it.    *)
(***************************************************************************)
C10_RelayErrorKeepsCursor ==
  [][(last'.phase = "awaiting" \/ last'.failed)
     => /\ kv' = kv
        /\ last'.failed => last'.phase = "exited" /\ last'.code # 0]_vars

\* the relay raised on a store that holds both entries
C10_Witness ==
  /\ last.cmd = "notifications" /\ last.failed /\ last.phase = "exited" /\ last.code = 1
  /\ Present(kv, LATEST_TIMESTAMP) /\ Present(kv, LAST_SEEN_TIMESTAMP)

(***************************************************************************)
(* C11: a polling command whose query returns no event is a success: it    *)
(* ends with exit code 0, and last_seen and latest, present or absent,     *)
(* are after the invocation what they were before it.                      *)
(***************************************************************************)
C11_EmptyPollKeepsCursor ==
  [][/\ (last'.cmd \in PollCmds /\ last'.phase = "awaiting") => kv' = kv
     /\ (last'.cmd \in PollCmds /\ last'.phase = "returned" /\ last'.events = <<>>)
          => last'.code = 0 /\ kv' = kv]_vars

\* an empty answer on a store that holds last_seen and no latest
C11_Witness ==
  /\ last.cmd = "show" /\ last.phase = "returned" /\ last.events = <<>> /\ last.code = 0
  /\ last.queries = 1
  /\ Present(kv, LAST_SEEN_TIMESTAMP) /\ ~Present(kv, LATEST_TIMESTAMP)

\* what timestamp --json reports of a table, read by a fresh process
Inspect(table) == timestampCommand(World(table, "null"), [NoOptions EXCEPT !.json = TRUE]).out

(***************************************************************************)
(* C12: setting latest to n, through setLatestTimestamp or timestamp --set,*)
(* makes a following inspection report latest = n, and likewise for        *)
(* last_seen: for 0, for a negative n and for an n below the stored value, *)
(* whatever the store held.                                                *)
(***************************************************************************)
C12_SetOverwrites ==
  [][/\ last'.cmd = "setLatestTimestamp" => Inspect(kv').latest = last'.value
     /\ last'.cmd = "setLastSeenTimestamp" => Inspect(kv').lastSeen = last'.value
     /\ (last'.cmd = "timestamp" /\ last'.options.set # NoStr
           /\ IsDecimalInteger(last'.options.set[1]))
          => Inspect(kv').latest = Num(DecimalValue(last'.options.set[1]))
     /\ (last'.cmd = "timestamp" /\ last'.options.set = NoStr
           /\ last'.options.setLastSeen # NoStr
           /\ IsDecimalInteger(last'.options.setLastSeen[1]))
          => Inspect(kv').lastSeen = Num(DecimalValue(last'.options.setLastSeen[1]))]_vars

\* latest was set to -1 on a store that holds last_seen
C12_Witness ==
  /\ last.cmd = "setLatestTimestamp" /\ last.value = Num(-1)
  /\ Inspect(kv).latest = Num(-1)
  /\ Present(kv, LAST_SEEN_TIMESTAMP)

(***************************************************************************)
(* C13: closing the store, at any point and any number of times, changes   *)
(* nothing that a later operation reads or writes: in every state every    *)
(* read returns, and every write leaves in the table, the same with a      *)
(* close inserted before it as without, and the close itself leaves the    *)
(* table as it was.                                                        *)
(***************************************************************************)
SameReads(w1, w2) ==
  /\ getLatestTimestamp(w1) = getLatestTimestamp(w2)
  /\ getLastSeenTimestamp(w1) = getLastSeenTimestamp(w2)
  /\ \A value \in ResolveArgs :
       resolveTimestampParam(w1, value).res = resolveTimestampParam(w2, value).res

SameWrites(w1, w2) ==
  /\ \A ts \in StoreInts :
       /\ setLatestTimestamp(w1, ts).kv = setLatestTimestamp(w2, ts).kv
       /\ setLastSeenTimestamp(w1, ts).kv = setLastSeenTimestamp(w2, ts).kv
  /\ \A events \in EventBatches :
       trackLatestTimestamp(w1, events).kv = trackLatestTimestamp(w2, events).kv

C13_CloseIsTransparent ==
  [][/\ SameReads(World(kv', db'), closeStore(World(kv', db')))
     /\ SameWrites(World(kv', db'), closeStore(World(kv', db')))
     /\ last'.cmd = "closeStore" => kv' = kv /\ db' = "null"]_vars

\* the store was closed while it held both entries
C13_Witness ==
  /\ last.cmd = "closeStore" /\ db = "null"
  /\ Stored(kv, LATEST_TIMESTAMP) = Num(10) /\ Present(kv, LAST_SEEN_TIMESTAMP)

\* an invocation of timestamp --rollforward (--set and --set-last-seen come first)
IsRollForward(l) ==
  /\ l.cmd = "timestamp" /\ l.options.rollforward
  /\ l.options.set = NoStr /\ l.options.setLastSeen = NoStr

(***************************************************************************)
(* C14: when last_seen holds s, timestamp --rollforward writes              *)
(* latest := s + 1, whatever latest held, and leaves last_seen at s.       *)
(***************************************************************************)
C14_RollForwardPresent ==
  [][(IsRollForward(last') /\ Present(kv, LAST_SEEN_TIMESTAMP))
     => /\ Stored(kv', LATEST_TIMESTAMP) = Num(Stored(kv, LAST_SEEN_TIMESTAMP).v + 1)
        /\ kv'[LAST_SEEN_TIMESTAMP] = kv[LAST_SEEN_TIMESTAMP]]_vars

\* rolled forward from last_seen = 9
C14_Witness ==
  /\ IsRollForward(last) /\ last.phase = "returned"
  /\ Stored(kv, LAST_SEEN_TIMESTAMP) = Num(9) /\ Stored(kv, LATEST_TIMESTAMP) = Num(10)

(***************************************************************************)
(* C15, as stated: timestamp --rollforward writes                           *)
(* latest := (last_seen if present, else 0) + 1 in every store state.      *)
(***************************************************************************)
C15_RollForwardPlusOne ==
  [][IsRollForward(last')
     => Stored(kv', LATEST_TIMESTAMP) =
          Num((IF Present(kv, LAST_SEEN_TIMESTAMP)
                 THEN Stored(kv, LAST_SEEN_TIMESTAMP).v ELSE 0) + 1)]_vars

(***************************************************************************)
(* C15, amended: timestamp --rollforward writes latest := last_seen + 1    *)
(* when last_seen is present and latest := 0 when it is absent.            *)
(***************************************************************************)
C15_RollForwardOrZero ==
  [][IsRollForward(last')
     => Stored(kv', LATEST_TIMESTAMP) =
          Num(IF Present(kv, LAST_SEEN_TIMESTAMP)
                THEN Stored(kv, LAST_SEEN_TIMESTAMP).v + 1 ELSE 0)]_vars

\* rolled forward with no last_seen: latest is 0
C15_Witness ==
  /\ IsRollForward(last) /\ last.phase = "returned"
  /\ ~Present(kv, LAST_SEEN_TIMESTAMP) /\ Stored(kv, LATEST_TIMESTAMP) = Num(0)

(***************************************************************************)
(* C16: with no last_seen recorded, timestamp --rollforward and the        *)
(* earlier `timestamp latest` end with exit code 0, set latest to 0        *)
(* whatever it held, and leave last_seen absent.                           *)
(***************************************************************************)
IsLegacyRollForward(l) == l.cmd = "legacy timestamp" /\ l.since = Str(latestWord)

C17_ResetOffered ==
  \E options \in AllTimestampOptions :
    /\ timestampAction(World(kv, "null"), options).phase = "returned"
    /\ Inspect(timestampAction(World(kv, "null"), options).w.kv).latest = Num(0)
    /\ Inspect(timestampAction(World(kv, "null"), options).w.kv).lastSeen = Num(0)

\* an invocation of the timestamp command in one of its read modes
IsInspect(l) ==
  /\ l.cmd = "timestamp" /\ ~l.options.rollforward
  /\ l.options.set = NoStr /\ l.options.setLastSeen = NoStr

\* what a machine-readable report of an entry has to be
Reported(table, key) == IF Present(table, key) THEN Stored(table, key) ELSE null

(***************************************************************************)
(* C18: the read modes of the timestamp command (no option, --get, --json) *)
(* leave latest and last_seen as they are, and --json reports each entry   *)
(* as its stored integer when present, 0 included, and as null when        *)
(* absent, never as "not set".                                             *)
(***************************************************************************)
C18_InspectIsPureRead ==
  [][IsInspect(last')
     => /\ kv' = kv
        /\ last'.phase = "returned"
        /\ (last'.options.json /\ ~last'.options.get)
             => /\ last'.value.mode = "json"
                /\ last'.value.latest = Reported(kv, LATEST_TIMESTAMP)
                /\ last'.value.lastSeen = Reported(kv, LAST_SEEN_TIMESTAMP)]_vars

\* --json on a store that holds latest = 0 and no last_seen
C18_Witness ==
  /\ IsInspect(last) /\ last.options.json
  /\ last.value.latest = Num(0) /\ last.value.lastSeen = null
  /\ kv[LATEST_TIMESTAMP] = Str(<<"0">>) /\ ~Present(kv, LAST_SEEN_TIMESTAMP)

(***************************************************************************)
(* C19: an operation that sets latest (setLatestTimestamp, --set, the      *)
(* roll-forward of both commands) changes no other key; one that sets      *)
(* last_seen (setLastSeenTimestamp, --set-last-seen, trackLatestTimestamp) *)
(* changes no other key; and no cursor operation, reset included, adds,    *)
(* changes or removes a key that is not a cursor key.                      *)
(***************************************************************************)
WritesLatest(l) ==
  \/ l.cmd = "setLatestTimestamp"
  \/ l.cmd = "timestamp" /\ l.options.set # NoStr
  \/ IsRollForward(l)
  \/ IsLegacyRollForward(l)

WritesLastSeen(l) ==
  \/ l.cmd \in {"setLastSeenTimestamp", "trackLatestTimestamp"}
  \/ l.cmd = "timestamp" /\ l.options.set = NoStr /\ l.options.setLastSeen # NoStr

C20_LatestAutoAdvances ==
  [][(/\ last.cmd = "recent" /\ last.phase = "awaiting" /\ last.since = Str(latestWord)
      /\ PollSucceeded(last') /\ last'.events # <<>>)
     => Stored(kv', LATEST_TIMESTAMP) = Num(Newest(last'.events) + 1)]_vars

(***************************************************************************)
(* C21: the key/value contract, step by step: after set(k, v) a get of k   *)
(* gives v, whether or not k had a value; after delete(k) a get of k gives *)
(* nothing, and a delete of an absent key returns and changes nothing; a   *)
(* set or delete of k leaves every other key as it was; a get returns what *)
(* the table holds and changes nothing.  So get(k) is the latest set of k  *)
(* that no delete of k followed.                                           *)
(***************************************************************************)
C21_KvContract ==
  [][/\ last'.cmd = "kvSet"
          => /\ kvGet(World(kv', db'), last'.arg) = last'.since
             /\ \A k \in TableKeys \ {last'.arg} : kv'[k] = kv[k]
     /\ last'.cmd = "kvDelete"
          => /\ last'.phase = "returned"
             /\ kvGet(World(kv', db'), last'.arg) = NoStr
             /\ \A k \in TableKeys \ {last'.arg} : kv'[k] = kv[k]
     /\ last'.cmd = "kvGet" => kv' = kv /\ last'.since = kv[last'.arg]]_vars

\* foo was overwritten with baz while the other keys hold values
C21_Witness ==
  /\ last.cmd = "kvSet" /\ last.arg = FOO /\ last.since = Str(<<"b", "a", "z">>)
  /\ kv[FOO] = Str(<<"b", "a", "z">>)
  /\ kv[LATEST_TIMESTAMP] = Str(<<"b", "a", "r">>) /\ kv[LAST_SEEN_TIMESTAMP] = Str(<<"1">>)

(***************************************************************************)
(* C22: updateLastSeenTimestamp(createdAt) writes last_seen :=             *)
(* createdAt + 1 when last_seen is absent or smaller than that, and        *)
(* leaves it as it is when createdAt + 1 is less than or equal to it; so   *)
(* last_seen never decreases under it, and a run of such calls leaves the  *)
(* greatest createdAt + 1.                                                 *)
(***************************************************************************)
C22_UpdateAdvancesIfGreater ==
  [][last'.cmd = "updateLastSeenTimestamp"
     => /\ IF ~Present(kv, LAST_SEEN_TIMESTAMP)
                \/ last'.value.v + 1 > Stored(kv, LAST_SEEN_TIMESTAMP).v
             THEN Stored(kv', LAST_SEEN_TIMESTAMP) = Num(last'.value.v + 1)
             ELSE kv'[LAST_SEEN_TIMESTAMP] = kv[LAST_SEEN_TIMESTAMP]
        /\ Present(kv, LAST_SEEN_TIMESTAMP)
             => Stored(kv', LAST_SEEN_TIMESTAMP).v >= Stored(kv, LAST_SEEN_TIMESTAMP).v]_vars

\* an older createdAt was given while last_seen held 10: nothing was written
C22_Witness ==
  /\ last.cmd = "updateLastSeenTimestamp" /\ last.value = Num(0)
  /\ Stored(kv, LAST_SEEN_TIMESTAMP) = Num(10)

(***************************************************************************)
(* C23: a value given to timestamp --set or --set-last-seen that is not a  *)
(* literal decimal integer makes the command report 'Invalid timestamp     *)
(* value', exit non-zero and leave latest and last_seen as they were.      *)
(* The code takes parseInt's word for it: "9x" is stored as 9.             *)
(***************************************************************************)
C23_MalformedAdminValueRejected ==
  [][(/\ last'.cmd = "timestamp"
      /\ \/ last'.options.set # NoStr /\ ~IsDecimalInteger(last'.options.set[1])
         \/ /\ last'.options.set = NoStr /\ last'.options.setLastSeen # NoStr
            /\ ~IsDecimalInteger(last'.options.setLastSeen[1]))
     => /\ last'.phase = "exited" /\ last'.code # 0 /\ last'.msg = INVALID_VALUE
        /\ kv' = kv]_vars

\* reading a run of deleteCommand: the references that are not blank, the id each
\* valid reference stands for, and whether a library function was called
NonBlankRefs(st) == {n \in 1..Len(st.eventRefs) : st.eventRefs[n] \notin {"", " "}}

IsValidRef(ref) == ref \in {"a", "A", "b", "B", "note1a", "note1b"}

IdOfRef(ref) == IF ref \in {"a", "A", "note1a"} THEN "a" ELSE "b"

HasCalled(st, f) == \E n \in 1..Len(st.calls) : st.calls[n] = f

NotOwn(st) == \E m \in 1..Len(st.found) : st.found[m] = NotFound \/ st.found[m].pubkey # "me"

(***************************************************************************)
(* C24: deleteCommand calls publishEvent only after every non-blank        *)
(* reference was valid, was queried and came back as an event of the       *)
(* user's own key; with no key pair, no non-blank reference, an invalid    *)
(* reference, or an event not found or of another author, it never calls   *)
(* createSignedEvent or publishEvent and its exit code is 1; and the tags  *)
(* it signs hold each distinct event id exactly once.                      *)
(***************************************************************************)
C24_DeleteOnlyOwnEvents ==
  last.cmd = "delete" =>
    /\ HasCalled(last.value, "publishEvent")
         => /\ last.value.keyPair /\ NonBlankRefs(last.value) # {}
            /\ \A n \in NonBlankRefs(last.value) : IsValidRef(last.value.eventRefs[n])
            /\ Len(last.value.found) = Cardinality(NonBlankRefs(last.value))
            /\ ~NotOwn(last.value)
            /\ last.value.calls =
                 [m \in 1..Cardinality(NonBlankRefs(last.value)) |-> "queryEventById"]
                   \o <<"createSignedEvent", "publishEvent">>
    /\ (\/ ~last.value.keyPair \/ NonBlankRefs(last.value) = {} \/ NotOwn(last.value)
        \/ \E n \in NonBlankRefs(last.value) : ~IsValidRef(last.value.eventRefs[n]))
         => /\ ~HasCalled(last.value, "createSignedEvent")
            /\ ~HasCalled(last.value, "publishEvent")
            /\ last.phase \in {"awaiting", "exited"}
            /\ last.phase = "exited" => last.code = 1
            /\ (~last.value.keyPair \/ NonBlankRefs(last.value) = {} \/ NotOwn(last.value))
                 => last.phase = "exited"
    /\ HasCalled(last.value, "createSignedEvent")
         => /\ \A n \in NonBlankRefs(last.value) :
                 Cardinality({m \in 1..Len(last.value.tags) :
                                /\ last.value.tags[m].name = "e"
                                /\ last.value.tags[m].id = IdOfRef(last.value.eventRefs[n])}) = 1
            /\ \A m \in 1..Len(last.value.tags) :
                 last.value.tags[m].name = "e"
                   => \E n \in NonBlankRefs(last.value) :
                        last.value.tags[m].id = IdOfRef(last.value.eventRefs[n])

\* one id given in upper case and in its NIP-19 form: published with one e tag
C24_Witness ==
  /\ last.cmd = "delete" /\ last.phase = "returned"
  /\ last.value.eventRefs = <<"A", "note1a">>
  /\ Len(last.value.tags) = 2 /\ last.value.tags[1] = [name |-> "e", id |-> "a"]
  /\ HasCalled(last.value, "publishEvent")

(***************************************************************************)
(* C25: one invocation of a polling command goes read cursor, query,       *)
(* write cursor.  The step that invokes it resolves the bounds from the    *)
(* store as it is then and writes nothing; every step that ends in an      *)
(* await of the relay writes nothing and the bounded query carries the     *)
(* bounds resolved at invocation; a write happens only on the step that    *)
(* takes the answer of the last query to the end of the command, and it    *)
(* is a write to last_seen alone.                                          *)
(***************************************************************************)
C25_ReadQueryWrite ==
  [][last'.cmd \in PollCmds
     => /\ Idle => /\ kv' = kv
                   /\ last'.phase = "awaiting"
                        => last'.bounds = Bounds(World(kv, "null"), Argv(last'.since, last'.until))
        /\ last'.phase = "awaiting"
             => /\ kv' = kv
                /\ ~Idle => last'.bounds = last.bounds
                /\ last'.filter \in {NoFilter, last'.bounds}
                /\ (last'.cmd = "show" /\ last'.arg = "event" /\ last'.queries = 1)
                     \/ last'.filter = last'.bounds
        /\ kv' # kv
             => /\ last.phase = "awaiting" /\ last'.phase = "returned" /\ ~last'.failed
                /\ \A k \in TableKeys \ {LAST_SEEN_TIMESTAMP} : kv'[k] = kv[k]]_vars

\* suspended in the comments query with the lower bound read from latest
C25_Witness ==
  /\ last.cmd = "show" /\ last.arg = "event" /\ last.phase = "awaiting" /\ last.queries = 2
  /\ last.since = Str(latestWord) /\ last.filter.since = Stored(kv, LATEST_TIMESTAMP)
  /\ Present(kv, LAST_SEEN_TIMESTAMP)

\* the bound a --since / --until argument stands for, read off the table
ExpectedBound(table, arg) ==
  IF arg = NoStr THEN undefined
  ELSE IF arg = Str(latestWord) THEN Stored(table, LATEST_TIMESTAMP)
  ELSE Num(DecimalValue(arg[1]))

(***************************************************************************)
(* C26: the filter of the bounded query of each polling command has since  *)
(* (resp. until) exactly when --since (resp. --until) was given, and then  *)
(* it is the resolved integer: the literal, or the stored latest, also     *)
(* when that is 0 and also for --until latest.                             *)
(***************************************************************************)
C26_FilterCarriesBounds ==
  (/\ last.cmd \in PollCmds /\ last.phase = "awaiting"
   /\ ~(last.cmd = "show" /\ last.arg = "event" /\ last.queries = 1))
  => /\ last.filter.since = ExpectedBound(kv, last.since)
     /\ last.filter.until = ExpectedBound(kv, last.until)

\* both bounds given as latest, which holds 0
C26_Witness ==
  /\ last.cmd = "search" /\ last.phase = "awaiting"
  /\ last.since = Str(latestWord) /\ last.until = Str(latestWord)
  /\ last.filter.since = Num(0) /\ last.filter.until = Num(0)

\* an entry is absent, or the decimal text of an integer that the getter reads back
WellFormed(table, key, read) ==
  \/ table[key] = NoStr
  \/ /\ IsDecimalInteger(table[key][1])
     /\ String(DecimalValue(table[key][1])) = table[key][1]
     /\ read = Num(DecimalValue(table[key][1]))

(***************************************************************************)
(* C27: under every cursor operation and command, with valid or invalid    *)
(* arguments, latest and last_seen are each absent or the text of an       *)
(* integer that reads back as that integer, and an entry that is present   *)
(* stays present.                                                          *)
(***************************************************************************)
C27_EntriesAreIntegers ==
  [][/\ WellFormed(kv', LATEST_TIMESTAMP, getLatestTimestamp(World(kv', db')))
     /\ WellFormed(kv', LAST_SEEN_TIMESTAMP, getLastSeenTimestamp(World(kv', db')))
     /\ \A k \in KV_KEYS : Present(kv, k) => Present(kv', k)]_vars

\* a poll has advanced last_seen on a store whose latest was set by hand
C27_Witness ==
  /\ PollSucceeded(last) /\ last.events # <<>>
  /\ kv[LATEST_TIMESTAMP] = Str(<<"9">>)
  /\ Stored(kv, LAST_SEEN_TIMESTAMP) = Num(Newest(last.events) + 1)

(***************************************************************************)
(* C28: on a non-empty batch whose newest created_at is positive,          *)
(* trackLatestTimestamp leaves the store as updateLastSeenTimestamp of     *)
(* that newest created_at leaves it, whatever last_seen held before.       *)
(***************************************************************************)
C28_TrackIsUpdate ==
  \A events \in EventBatches :
    (events # <<>> /\ Newest(events) >= 1)
      => trackLatestTimestamp(World(kv, db), events).kv
           = updateLastSeenTimestamp(World(kv, db), Newest(events)).kv

\* the option of highest precedence among those given, alone
Foremost(options) ==
  IF options.set # NoStr THEN [NoOptions EXCEPT !.set = options.set]
  ELSE IF options.setLastSeen # NoStr THEN [NoOptions EXCEPT !.setLastSeen = options.setLastSeen]
  ELSE IF options.rollforward THEN [NoOptions EXCEPT !.rollforward = TRUE]
  ELSE IF options.get THEN [NoOptions EXCEPT !.get = TRUE]
  ELSE IF options.json THEN [NoOptions EXCEPT !.json = TRUE]
  ELSE NoOptions

(***************************************************************************)
(* C29: an invocation of the option-based timestamp command does what the  *)
(* option of highest precedence among those given (--set, --set-last-seen, *)
(* --rollforward, --get, --json, none) does alone: same store, same exit,  *)
(* same output; and it changes at most one of the two entries.             *)
(***************************************************************************)
C29_OneModeByPrecedence ==
  [][last'.cmd = "timestamp" =>
       LET alone == timestampAction(World(kv, "null"), Foremost(last'.options))
       IN /\ kv' = alone.w.kv
          /\ last'.phase = alone.phase
          /\ last'.code = alone.code
          /\ last'.msg = alone.msg
          /\ last'.value = alone.out
          /\ Cardinality({k \in TableKeys : kv'[k] # kv[k]}) <= 1]_vars

\* --set 9 given with --set-last-seen 0 and --rollforward: only latest was written
C29_Witness ==
  /\ last.cmd = "timestamp" /\ last.phase = "returned"
  /\ last.options.set = Str(<<"9">>)
  /\ last.options.setLastSeen = Str(<<"0">>)
  /\ last.options.rollforward
  /\ kv[LATEST_TIMESTAMP] = Str(<<"9">>)
  /\ kv[LAST_SEEN_TIMESTAMP] = Str(<<"1", "0">>)

====
